---- MODULE Spec2Model ----
(***************************************************************************)
(* HL7 v2 ADT <-> FHIR converter of emr_solution, with the inbound         *)
(* endpoint and the integration service that call it.                      *)
(*                                                                         *)
(* Text is modelled character by character: a Python str is a sequence of  *)
(* one-character strings, so that split, strip, upper, zfill and slicing   *)
(* are computed the way the code computes them.  An Optional value (None,  *)
(* or a dictionary key that is absent) is a sequence of length 0 or 1.     *)
(***************************************************************************)
EXTENDS Integers, Sequences, FiniteSets, TLC

VARIABLES
    pc,             \* "input" | "message" | "done" | "error" ("idle" under ServiceSpec)
    kind,           \* which input was drawn: "gen" | "raw" | "pid" | "in1" | "date"
                    \* ("service" under ServiceSpec)
    call,           \* the function applied last
    args,           \* arguments of the generator
    hl7_message,    \* message text (generated, or received)
    segment,        \* parsed segment handed to a mapper
    patient_reference, \* second argument of in1_to_fhir_coverage
    date_str,       \* argument of parse_hl7_date
    result,         \* [patient, coverage, date]: what the call returned
    registry,       \* the FHIR server's resources, in the order they were created
    request         \* the requests being handled, each with its own locals

conversion_vars ==
    <<pc, kind, call, args, hl7_message, segment, patient_reference, date_str, result>>
service_vars == <<registry, request>>
vars == <<conversion_vars, service_vars>>

\* ---------------------------------------------------------------- text

CR == "<CR>"
LF == "<LF>"
TAB == "<TAB>"

None == <<>>
Some(x) == <<x>>

\* The indices 1..Len(s), in increasing order.
Positions(s) == [i \in 1..Len(s) |-> i]

\* str.split(sep): the text between consecutive separators; always at least
\* one part.
Split(s, sep) ==
    LET at == SelectSeq(Positions(s), LAMBDA i : s[i] = sep)
    IN  [k \in 1..(Len(at) + 1) |->
            SubSeq(s, IF k = 1 THEN 1 ELSE at[k - 1] + 1,
                      IF k = Len(at) + 1 THEN Len(s) ELSE at[k] - 1)]

\* sep.join(parts)
RECURSIVE Join(_, _)
Join(parts, sep) ==
    IF Len(parts) = 0 THEN <<>>
    ELSE IF Len(parts) = 1 THEN parts[1]
    ELSE parts[1] \o <<sep>> \o Join(Tail(parts), sep)

\* Python slice s[a:b] for 0 <= a, b (clamped to the length).
Slice(s, a, b) ==
    LET hi == IF b > Len(s) THEN Len(s) ELSE b
    IN  IF a >= hi THEN <<>> ELSE SubSeq(s, a + 1, hi)

Whitespace == {" ", CR, LF, TAB}

\* str.strip(): from the first to the last character that is not whitespace.
Strip(s) ==
    LET keep == SelectSeq(Positions(s), LAMBDA i : s[i] \notin Whitespace)
    IN  IF Len(keep) = 0 THEN <<>> ELSE SubSeq(s, keep[1], keep[Len(keep)])

LowerCase == <<"a", "b", "c", "d", "e", "f", "g", "h", "i", "j", "k", "l", "m",
               "n", "o", "p", "q", "r", "s", "t", "u", "v", "w", "x", "y", "z">>
UpperCase == <<"A", "B", "C", "D", "E", "F", "G", "H", "I", "J", "K", "L", "M",
               "N", "O", "P", "Q", "R", "S", "T", "U", "V", "W", "X", "Y", "Z">>

UpperChar(c) ==
    IF \E i \in 1..Len(LowerCase) : LowerCase[i] = c
    THEN UpperCase[CHOOSE i \in 1..Len(LowerCase) : LowerCase[i] = c]
    ELSE c

\* str.upper()
Upper(s) == [i \in 1..Len(s) |-> UpperChar(s[i])]

\* str.zfill(2): zeros on the left, after a leading sign.
ZFill2(s) ==
    IF Len(s) >= 2 THEN s
    ELSE IF Len(s) = 0 THEN <<"0", "0">>
    ELSE IF s[1] \in {"+", "-"} THEN <<s[1], "0">>
    ELSE <<"0", s[1]>>

\* str.replace('\r\n', '\r'): the LF of every CR LF pair is dropped.
ReplaceCRLF(s) ==
    LET after == [i \in 1..Len(s) |-> <<s[i], IF i > 1 THEN s[i - 1] ELSE "">>]
        kept  == SelectSeq(after, LAMBDA p : ~(p[1] = LF /\ p[2] = CR))
    IN  [i \in 1..Len(kept) |-> kept[i][1]]

\* str.replace('\n', '\r')
ReplaceLF(s) == [i \in 1..Len(s) |-> IF s[i] = LF THEN CR ELSE s[i]]

\* ------------------------------------------------------- hl7_converter

\* Mutant of parse_hl7_date: the month sliced from the wrong place.
parse_hl7_date_wrong_month(d) ==
    IF Len(d) = 0 \/ Len(d) < 8 THEN None
    ELSE Some(Slice(d, 0, 4) \o <<"-">> \o Slice(d, 2, 4) \o <<"-">> \o Slice(d, 6, 8))

\* parse_hl7_date(date_str): YYYYMMDD... -> YYYY-MM-DD, or None.
parse_hl7_date(d) ==
    IF Len(d) = 0 \/ Len(d) < 8 THEN None
    ELSE Some(Slice(d, 0, 4) \o <<"-">> \o Slice(d, 4, 6) \o <<"-">> \o Slice(d, 6, 8))

\* The delimiters every modelled message declares in MSH-2 (both generators
\* and the accepted test message write ^~\&).
ComponentSep == "^"
RepetitionSep == "~"
SubcomponentSep == "&"
HeaderTypes == {<<"M", "S", "H">>, <<"F", "H", "S">>, <<"B", "H", "S">>}

\* str.find(c, start): 0-based index of the first c at or after start, or -1.
Find(s, c, start) ==
    LET at == SelectSeq(Positions(s), LAMBDA i : i > start /\ s[i] = c)
    IN  IF Len(at) = 0 THEN -1 ELSE at[1] - 1

\* hl7: a Field is the list of its repetitions, a repetition the list of its
\* components, a component the list of its subcomponents.
hl7_field(text) ==
    LET reps == Split(text, RepetitionSep)
    IN  [r \in 1..Len(reps) |->
            LET comps == Split(reps[r], ComponentSep)
            IN  [c \in 1..Len(comps) |-> Split(comps[c], SubcomponentSep)]]

\* A field created around one string, as the parser does for the header's type
\* code and separator fields.
hl7_plain_field(text) == <<<<<<text>>>>>>

\* str(field): every container joins the str of its children with its separator.
Str(field) ==
    Join([r \in 1..Len(field) |->
            Join([c \in 1..Len(field[r]) |-> Join(field[r][c], SubcomponentSep)],
                 ComponentSep)],
         RepetitionSep)

\* bool(field): a container is a list, true when it has an element.
Truthy(container) == Len(container) > 0

\* hl7 _split at segment level: the header segment keeps its separator
\* characters as fields 1 and 2; any other segment is split on the field
\* separator.
hl7_segment(text, sep) ==
    IF Slice(text, 0, 3) \in {<<"M", "S", "H">>, <<"F", "H", "S">>} /\ Len(text) > 3
    THEN LET sep0 == text[4]
             off  == Find(text, sep0, 4)
             seps == IF off = -1 THEN Slice(text, 4, Len(text) - 1) ELSE Slice(text, 4, off)
             rest == IF off = -1 THEN text ELSE Slice(text, off + 1, Len(text))
             tail == IF Len(rest) > 0 THEN Split(rest, sep) ELSE <<>>
         IN  <<hl7_plain_field(Slice(text, 0, 3)), hl7_plain_field(<<sep0>>),
               hl7_plain_field(seps)>>
             \o [i \in 1..Len(tail) |-> hl7_field(tail[i])]
    ELSE LET parts == Split(text, sep)
         IN  [i \in 1..Len(parts) |-> hl7_field(parts[i])]

\* hl7.parse(text): strip, read the separators from the header, split on CR.
\* ok = FALSE stands for the exception raised on text that does not start
\* with a header segment.
hl7_parse(text) ==
    LET strmsg == Strip(text)
    IN  IF Slice(strmsg, 0, 3) \notin HeaderTypes \/ Len(strmsg) < 4
        THEN [ok |-> FALSE, segments |-> <<>>]
        ELSE LET sep   == strmsg[4]
                 lines == Split(strmsg, CR)
             IN  [ok |-> TRUE,
                  segments |-> [i \in 1..Len(lines) |-> hl7_segment(lines[i], sep)]]

\* Mutant of parse_hl7_message: a lone LF is not replaced.
parse_hl7_message_keeping_lf(text) ==
    hl7_parse(ReplaceCRLF(text))

\* parse_hl7_message(hl7_message): CRLF or LF -> CR, then hl7.parse.
parse_hl7_message(text) ==
    hl7_parse(ReplaceLF(ReplaceCRLF(text)))

\* parse_hl7_name(name_field)
parse_hl7_name(name_field) ==
    LET name_parts == Split(Str(name_field), "^")
        first  == IF Len(name_parts) > 1 /\ Len(name_parts[2]) > 0
                  THEN <<name_parts[2]>> ELSE <<>>
        middle == IF Len(name_parts) > 2 /\ Len(name_parts[3]) > 0
                  THEN <<name_parts[3]>> ELSE <<>>
    IN  [use |-> "official",
         family |-> IF Len(name_parts) > 0 THEN name_parts[1] ELSE <<>>,
         given |-> first \o middle]

\* Mutant of gender_map_get: the table lacks the entry for O.
gender_map_get_without_other(gender_code) ==
    IF gender_code = <<"M">> THEN "male"
    ELSE IF gender_code = <<"F">> THEN "female"
    ELSE "unknown"

\* gender_map.get(gender_code, "unknown")
gender_map_get(gender_code) ==
    IF gender_code = <<"M">> THEN "male"
    ELSE IF gender_code = <<"F">> THEN "female"
    ELSE IF gender_code = <<"O">> THEN "other"
    ELSE IF gender_code = <<"U">> THEN "unknown"
    ELSE "unknown"

\* pid_to_fhir_patient(pid_segment); field k of the segment is pid_segment[k + 1].
pid_to_fhir_patient(pid_segment) ==
    LET has(k) == Len(pid_segment) > k /\ Truthy(pid_segment[k + 1])
    IN  [resourceType |-> "Patient",
         identifier |->
            IF has(3)
            THEN <<[use |-> "usual", code |-> "MR",
                    value |-> Split(Str(pid_segment[4]), "^")[1]]>>
            ELSE <<>>,
         name |-> IF has(5) THEN <<parse_hl7_name(pid_segment[6])>> ELSE <<>>,
         gender |-> IF has(8) THEN gender_map_get(Upper(Str(pid_segment[9])))
                    ELSE "unknown",
         birthDate |-> IF has(7) THEN parse_hl7_date(Str(pid_segment[8])) ELSE None]

\* Mutant of in1_to_fhir_coverage: the "class" list is created up front, so it
\* is there, empty, when nothing is appended.
in1_to_fhir_coverage_empty_class(in1_segment, ref) ==
    LET has(k) == Len(in1_segment) > k /\ Truthy(in1_segment[k + 1])
        group_number == IF has(8) THEN Strip(Str(in1_segment[9])) ELSE <<>>
        plan_name    == IF has(9) THEN Strip(Str(in1_segment[10])) ELSE <<>>
        group == IF Len(group_number) > 0
                 THEN <<[code |-> "group", value |-> group_number, name |-> None]>>
                 ELSE <<>>
        plan  == IF Len(plan_name) > 0
                 THEN <<[code |-> "plan", value |-> plan_name, name |-> Some(plan_name)]>>
                 ELSE <<>>
    IN  [resourceType |-> "Coverage",
         status |-> "active",
         beneficiary |-> [reference |-> ref],
         payor |-> IF has(4) THEN <<[display |-> Str(in1_segment[5])]>> ELSE <<>>,
         subscriberId |-> IF has(2) THEN Some(Split(Str(in1_segment[3]), "^")[1]) ELSE None,
         class |-> Some(group \o plan)]

\* in1_to_fhir_coverage(in1_segment, patient_reference); the "class" key is
\* created by the first entry appended.
in1_to_fhir_coverage(in1_segment, ref) ==
    LET has(k) == Len(in1_segment) > k /\ Truthy(in1_segment[k + 1])
        group_number == IF has(8) THEN Strip(Str(in1_segment[9])) ELSE <<>>
        plan_name    == IF has(9) THEN Strip(Str(in1_segment[10])) ELSE <<>>
        group == IF Len(group_number) > 0
                 THEN <<[code |-> "group", value |-> group_number, name |-> None]>>
                 ELSE <<>>
        plan  == IF Len(plan_name) > 0
                 THEN <<[code |-> "plan", value |-> plan_name, name |-> Some(plan_name)]>>
                 ELSE <<>>
    IN  [resourceType |-> "Coverage",
         status |-> "active",
         beneficiary |-> [reference |-> ref],
         payor |-> IF has(4) THEN <<[display |-> Str(in1_segment[5])]>> ELSE <<>>,
         subscriberId |-> IF has(2) THEN Some(Split(Str(in1_segment[3]), "^")[1]) ELSE None,
         class |-> IF Len(group \o plan) > 0 THEN Some(group \o plan) ELSE None]

PID == <<"P", "I", "D">>
IN1 == <<"I", "N", "1">>
PatientSlash == <<"P", "a", "t", "i", "e", "n", "t", "/">>
Temp == <<"t", "e", "m", "p">>

\* The loop of convert_hl7_to_fhir over the segments: every PID (IN1) segment
\* met is assigned to pid_segment (in1_segment).
RECURSIVE FindSegments(_, _, _, _)
FindSegments(message, i, pid_segment, in1_segment) ==
    IF i > Len(message) THEN [pid_segment |-> pid_segment, in1_segment |-> in1_segment]
    ELSE LET seg == message[i]
             segment_type == Str(seg[1])
         IN  IF segment_type = PID THEN FindSegments(message, i + 1, Some(seg), in1_segment)
             ELSE IF segment_type = IN1 THEN FindSegments(message, i + 1, pid_segment, Some(seg))
             ELSE FindSegments(message, i + 1, pid_segment, in1_segment)

\* "if pid_segment:" -- a segment was assigned and, being a list, is not empty.
Found(segment_opt) == Len(segment_opt) > 0 /\ Truthy(segment_opt[1])

\* The placeholder id: the first identifier's value, or "temp".
placeholder_id(patient) ==
    IF Len(patient.identifier) > 0 THEN patient.identifier[1].value ELSE Temp

\* The result once the patient is built: the coverage only "if in1_segment:".
with_patient(patient, in1_segment) ==
    [ok |-> TRUE,
     patient |-> Some(patient),
     coverage |-> IF Found(in1_segment)
                  THEN Some(in1_to_fhir_coverage(in1_segment[1],
                                                 PatientSlash \o placeholder_id(patient)))
                  ELSE None]

\* Mutant of assemble: the coverage is built from the IN1 segment also when no
\* PID segment was found.
assemble_coverage_without_patient(found) ==
    IF Found(found.pid_segment)
    THEN with_patient(pid_to_fhir_patient(found.pid_segment[1]), found.in1_segment)
    ELSE [ok |-> TRUE, patient |-> None,
          coverage |-> IF Found(found.in1_segment)
                       THEN Some(in1_to_fhir_coverage(found.in1_segment[1],
                                                      PatientSlash \o Temp))
                       ELSE None]

\* The result from the segments the loop found: both resources stay None
\* unless "if pid_segment:".
assemble(found) ==
    IF Found(found.pid_segment)
    THEN with_patient(pid_to_fhir_patient(found.pid_segment[1]), found.in1_segment)
    ELSE [ok |-> TRUE, patient |-> None, coverage |-> None]

\* The body of convert_hl7_to_fhir after parsing; ok = FALSE when parsing raised.
convert_parsed(parsed) ==
    IF ~parsed.ok THEN [ok |-> FALSE, patient |-> None, coverage |-> None]
    ELSE assemble(FindSegments(parsed.segments, 1, None, None))

\* convert_hl7_to_fhir(hl7_message)
convert_hl7_to_fhir(text) == convert_parsed(parse_hl7_message(text))

\* ------------------------------------------------------- hl7_generator

Truthy_opt(o) == Len(o) > 0 /\ Len(o[1]) > 0
OrEmpty(o) == IF Truthy_opt(o) THEN o[1] ELSE <<>>

\* Mutant of format_date_for_hl7: month and day are not zero-padded.
format_date_for_hl7_no_zfill(d) ==
    LET parts == Split(d, "/")
    IN  IF Len(parts) # 3 THEN [ok |-> FALSE, value |-> <<>>]
        ELSE [ok |-> TRUE, value |-> parts[3] \o parts[1] \o parts[2]]

\* format_date_for_hl7(date_str) of hl7_generator.py: MM/DD/YYYY -> YYYYMMDD;
\* ok = FALSE stands for the ValueError.
format_date_for_hl7(d) ==
    LET parts == Split(d, "/")
    IN  IF Len(parts) # 3 THEN [ok |-> FALSE, value |-> <<>>]
        ELSE [ok |-> TRUE, value |-> parts[3] \o ZFill2(parts[1]) \o ZFill2(parts[2])]

\* Mutant of svc_format_date_for_hl7: more than three parts are accepted.
svc_format_date_for_hl7_lenient(d) ==
    LET parts == Split(d, "/")
    IN  IF Len(parts) < 3 THEN [ok |-> FALSE, value |-> <<>>]
        ELSE [ok |-> TRUE, value |-> parts[3] \o ZFill2(parts[1]) \o ZFill2(parts[2])]

\* format_date_for_hl7(date_str) of patient_service.py; ok = FALSE stands for
\* the HTTPException(400).
svc_format_date_for_hl7(d) ==
    LET parts == Split(d, "/")
    IN  IF Len(parts) # 3 THEN [ok |-> FALSE, value |-> <<>>]
        ELSE [ok |-> TRUE, value |-> parts[3] \o ZFill2(parts[1]) \o ZFill2(parts[2])]

MRN == <<"M", "R", "N">>
MSG == <<"M", "S", "G">>
Bar == "|"

MSH_PREFIX == <<"M", "S", "H", "|", "^", "~", "\\", "&", "|", "I", "N", "T", "E", "G", "R", "A", "T", "I", "O", "N", "|", "C", "L", "I", "N", "I", "C", "|", "E", "M", "R", "|", "H", "O", "S", "P", "I", "T", "A", "L", "|">>
MSH_MIDDLE == <<"|", "|", "A", "D", "T", "^", "A", "0", "4", "|">>
MSH_SUFFIX == <<"|", "P", "|", "2", ".", "5">>

\* The header segment both generators write around the timestamp.
msh_segment(timestamp) ==
    MSH_PREFIX \o timestamp \o MSH_MIDDLE \o MSG \o timestamp \o MSH_SUFFIX

\* "M" if gender.upper() in ["MALE", "M"] else "F"
hl7_gender(gender) ==
    IF Upper(gender) \in {<<"M", "A", "L", "E">>, <<"M">>} THEN <<"M">> ELSE <<"F">>

\* f"PID|1||{mrn}^^^MRN||{last_name}^{first_name}||{hl7_dob}|{hl7_gender}"
pid_text(mrn, last_name, first_name, dob, gender) ==
    PID \o <<Bar, "1", Bar, Bar>> \o mrn \o <<"^", "^", "^">> \o MRN \o <<Bar, Bar>>
        \o last_name \o <<"^">> \o first_name \o <<Bar, Bar>> \o dob \o <<Bar>> \o gender

\* generate_hl7_adt_message(mrn, last_name, ..., group_number) at clock reading
\* timestamp; ok = FALSE when format_date_for_hl7 raised.
generate_hl7_adt_message(a, timestamp) ==
    LET mrn == IF ~Truthy_opt(a.mrn) THEN MRN \o timestamp ELSE a.mrn[1]
        msh == msh_segment(timestamp)
        hl7_dob == format_date_for_hl7(a.dob)
        pid == pid_text(mrn, a.last_name, a.first_name, hl7_dob.value, hl7_gender(a.gender))
        in1_parts == <<IN1, <<"1">>, OrEmpty(a.member_id), <<>>, OrEmpty(a.insurance_name),
                       <<>>, <<>>, <<>>, <<>>>>
                     \o (IF Truthy_opt(a.group_number) THEN <<a.group_number[1]>> ELSE <<<<>>>>)
                     \o (IF Truthy_opt(a.plan) THEN <<a.plan[1]>> ELSE <<>>)
        segments == <<msh, pid>>
                    \o (IF Truthy_opt(a.insurance_name) /\ Truthy_opt(a.member_id)
                        THEN <<Join(in1_parts, Bar)>> ELSE <<>>)
    IN  IF ~hl7_dob.ok THEN [ok |-> FALSE, value |-> <<>>]
        ELSE [ok |-> TRUE, value |-> Join(segments, CR)]

\* ------------------------------------------------------ patient_service

\* PatientData.insurance: the InsuranceInfo block is there when all four of its
\* (required) strings are, and None otherwise.
HasInsurance(a) ==
    Len(a.insurance_name) > 0 /\ Len(a.member_id) > 0 /\ Len(a.plan) > 0
        /\ Len(a.group_number) > 0

ValidPatientData(a) ==
    HasInsurance(a)
    \/ (a.insurance_name = None /\ a.member_id = None /\ a.plan = None
        /\ a.group_number = None)

\* generate_hl7_message(patient_data) at clock reading timestamp.
generate_hl7_message(a, timestamp) ==
    LET msh == msh_segment(timestamp)
        mrn == IF Truthy_opt(a.mrn) THEN a.mrn[1] ELSE MRN \o timestamp
        dob == svc_format_date_for_hl7(a.dob)
        pid == pid_text(mrn, a.last_name, a.first_name, dob.value, hl7_gender(a.gender))
        \* f"IN1|1|{ins.memberID}||{ins.name}|||||{ins.groupNumber}|{ins.plan}"
        in1 == IN1 \o <<Bar, "1", Bar>> \o a.member_id[1] \o <<Bar, Bar>>
               \o a.insurance_name[1] \o <<Bar, Bar, Bar, Bar, Bar>>
               \o a.group_number[1] \o <<Bar>> \o a.plan[1]
        segments == <<msh, pid>> \o (IF HasInsurance(a) THEN <<in1>> ELSE <<>>)
    IN  IF ~dob.ok THEN [ok |-> FALSE, value |-> <<>>]
        ELSE [ok |-> TRUE, value |-> Join(segments, CR)]

\* ---------------------------------------------------------------- inputs

MaxSegs == 2
MaxDateLen == 9
MaxTrail == 1

\* hl7_msg of test_server.py.
hl7_msg ==
    <<"M", "S", "H", "|", "^", "~", "\\", "&", "|", "E", "P", "I", "C", "|", "H", "O", "S",
      "P", "I", "T", "A", "L", "|", "E", "M", "R", "|", "C", "L", "I", "N", "I", "C", "|",
      "2", "0", "2", "3", "1", "0", "3", "1", "1", "2", "0", "0", "0", "0", "|", "|", "A",
      "D", "T", "^", "A", "0", "4", "|", "M", "S", "G", "0", "0", "0", "0", "1", "|", "P",
      "|", "2", ".", "5", LF, "P", "I", "D", "|", "1", "|", "|", "M", "R", "N", "1", "2",
      "3", "4", "5", "6", "^", "^", "^", "M", "R", "N", "|", "|", "S", "m", "i", "t", "h",
      "^", "J", "o", "h", "n", "^", "A", "|", "|", "1", "9", "8", "0", "1", "2", "1", "5",
      "|", "M", "|", "|", "|", "1", "2", "3", " ", "M", "a", "i", "n", " ", "S", "t", "^",
      "^", "B", "o", "s", "t", "o", "n", "^", "M", "A", "^", "0", "2", "1", "0", "1", "|",
      "|", "5", "5", "5", "-", "1", "2", "3", "4", "|", "|", "|", "S", "|", "|", "A", "C",
      "C", "T", "1", "2", "3", "4", "5", "6", LF, "I", "N", "1", "|", "1", "|", "P", "P",
      "O", "1", "2", "3", "|", "B", "C", "0", "0", "1", "|", "B", "l", "u", "e", "C", "r",
      "o", "s", "s", " ", "B", "l", "u", "e", "S", "h", "i", "e", "l", "d", "|", "P", "O",
      " ", "B", "o", "x", " ", "1", "2", "3", "4", "^", "^", "B", "o", "s", "t", "o", "n",
      "^", "M", "A", "^", "0", "2", "1", "0", "1", "|", "|", "|", "|", "|", "G", "R", "P",
      "4", "5", "6", "7", "8", "9", "|", "G", "o", "l", "d", " ", "P", "l", "a", "n", " ",
      "P", "P", "O">>

\* Clock readings: datetime.now().strftime("%Y%m%d%H%M%S").
Clock == {<<"2", "0", "2", "4", "0", "1", "0", "2", "0", "3", "0", "4", "0", "5">>}

MrnPool == {None,
     Some(<<"M", "1">>)}
LastNamePool == {<<"S", "m">>,
     <<"L", "i">>}
FirstNamePool == {<<"J", "o">>,
     <<"A">>}
DobPool == {<<"1", "2", "/", "1", "5", "/", "1", "9", "8", "0">>,
     <<"1", "/", "5", "/", "1", "9", "8", "0">>,
     <<"1", "9", "8", "0", "-", "1", "2", "-", "1", "5">>,
     <<"1", "2", "/", "1", "5", "/", "8", "0">>,
     <<"1", "2", "/", "1", "9", "8", "0">>,
     <<"1", "/", "2", "/", "3", "/", "4">>}
GenderPool == {<<"M", "a", "l", "e">>,
     <<"m">>,
     <<"F", "e", "m", "a", "l", "e">>,
     <<"x">>,
     <<>>}
InsuranceNamePool == {None,
     Some(<<>>),
     Some(<<"B", "C">>)}
MemberIdPool == {None,
     Some(<<>>),
     Some(<<"P", "1">>)}
PlanPool == {None,
     Some(<<"G", "o", "l", "d">>)}
GroupNumberPool == {None,
     Some(<<"G", "9">>)}

GenArgs ==
    [mrn : MrnPool, last_name : LastNamePool, first_name : FirstNamePool,
     dob : DobPool, gender : GenderPool, insurance_name : InsuranceNamePool,
     member_id : MemberIdPool, plan : PlanPool, group_number : GroupNumberPool]

NoArgs ==
    [mrn |-> None, last_name |-> <<>>, first_name |-> <<>>, dob |-> <<>>,
     gender |-> <<>>, insurance_name |-> None, member_id |-> None, plan |-> None,
     group_number |-> None]

\* Received messages: a header segment followed by up to MaxSegs segments.
RawHeader == <<"M", "S", "H", "|", "^", "~", "\\", "&", "|", "A", "|", "B", "|", "C", "|", "D", "|", "1", "|", "|", "A", "D", "T", "^", "A", "0", "4", "|", "1", "|", "P", "|", "2", ".", "5">>
RawSegmentPool ==
    {<<"P", "I", "D", "|", "1", "|", "|", "M", "1", "^", "^", "^", "M", "R", "N", "|", "|", "S", "m", "^", "J", "o", "|", "|", "1", "9", "8", "0", "1", "2", "1", "5", "|", "M">>,
     <<"P", "I", "D", "|", "1", "|", "|", "M", "2", "^", "^", "^", "M", "R", "N", "|", "|", "L", "i", "^", "A", "|", "|", "1", "9", "7", "9", "0", "1", "0", "1", "|", "F">>,
     <<"P", "I", "D">>,
     <<"I", "N", "1", "|", "1", "|", "P", "1", "|", "|", "B", "C", "|", "|", "|", "|", "|", "G", "9", "|", "G", "o", "l", "d">>,
     <<"I", "N", "1", "|", "1", "|", "P", "2", "|", "X", "|", "A", "E", "|", "|", "|", "|", "G", "7", "|", "S", "i", "l", "v", "e", "r">>,
     <<"E", "V", "N", "|", "A", "0", "4">>,
     <<>>}

\* The line terminators a sender may use.
LineTerminators == {<<CR>>, <<LF>>, <<CR, LF>>}

\* Every segment followed by the terminator.
RECURSIVE Terminated(_, _)
Terminated(lines, terminator) ==
    IF Len(lines) = 0 THEN <<>>
    ELSE lines[1] \o terminator \o Terminated(Tail(lines), terminator)

\* The segments separated by the terminator, with n more terminators after the
\* last one.
MessageText(lines, terminator, n) ==
    Terminated(SubSeq(lines, 1, Len(lines) - 1), terminator) \o lines[Len(lines)]
        \o Terminated([i \in 1..n |-> <<>>], terminator)

RawMessages ==
    {MessageText(<<RawHeader>> \o body, terminator, n) :
        body \in UNION {[1..k -> RawSegmentPool] : k \in 0..MaxSegs},
        terminator \in LineTerminators, n \in 0..MaxTrail}
    \cup {hl7_msg, <<>>, <<"P", "I", "D", "|", "1", "|", "|", "M", "1">>}

\* Segments handed to pid_to_fhir_patient: the first n fields of a PID segment.
Pid3Pool == {<<>>,
     <<"M", "1", "^", "^", "^", "M", "R", "N">>,
     <<"^", "^", "^", "M", "R", "N">>,
     <<"M", "2">>}
Pid5Pool == {<<>>,
     <<"S", "m", "^", "J", "o">>,
     <<"S", "m", "^", "J", "o", "^", "A">>,
     <<"^", "J", "o">>}
Pid7Pool == {<<>>,
     <<"1", "9", "8", "0">>,
     <<"1", "9", "8", "0", "1", "2", "1", "5">>,
     <<"1", "9", "8", "0", "1", "2", "1", "5", "1", "2", "0", "0", "0", "0">>}
Pid8Pool == {<<>>,
     <<"M">>,
     <<"m">>,
     <<"F">>,
     <<"f">>,
     <<"O">>,
     <<"o">>,
     <<"U">>,
     <<"u">>,
     <<"X">>,
     <<" ", "M">>,
     <<"M", "A", "L", "E">>}

PidSegments ==
    {[i \in 1..n |-> hl7_field(<<PID, <<"1">>, <<>>, f3, <<>>, f5, <<>>, f7, f8>>[i])] :
        n \in {1, 4, 6, 8, 9}, f3 \in Pid3Pool, f5 \in Pid5Pool, f7 \in Pid7Pool,
        f8 \in Pid8Pool}

\* Segments handed to in1_to_fhir_coverage: the first n fields of an IN1 segment.
In12Pool == {<<>>,
     <<"P", "1">>,
     <<"P", "1", "^", "x">>}
In14Pool == {<<>>,
     <<"B", "C">>}
In18Pool == {<<>>,
     <<" ">>,
     <<"G", "9">>,
     <<" ", "G", "9", " ">>}
In19Pool == {<<>>,
     <<" ", " ">>,
     <<"G", "o", "l", "d">>,
     <<"G", "o", "l", "d", " ">>}
ReferencePool == {PatientSlash \o Temp, PatientSlash \o <<"M", "1">>}

In1Segments ==
    {[i \in 1..n |-> hl7_field(<<IN1, <<"1">>, f2, <<>>, f4, <<>>, <<>>, <<>>, f8, f9>>[i])] :
        n \in {1, 3, 5, 8, 9, 10}, f2 \in In12Pool, f4 \in In14Pool, f8 \in In18Pool,
        f9 \in In19Pool}

\* Arguments of parse_hl7_date: every string of at most MaxDateLen characters.
DateChars == {"1", "9"}
DateStrings == UNION {[1..k -> DateChars] : k \in 0..MaxDateLen}

NoResult == [ok |-> TRUE, patient |-> None, coverage |-> None, date |-> None]

\* ------------------------------------------------------------ behaviour

Init ==
    /\ call = "none"
    /\ result = NoResult
    /\ registry = <<>>
    /\ request = <<>>
    /\ \/ /\ kind = "gen" /\ pc = "input" /\ args \in GenArgs
          /\ hl7_message = <<>> /\ segment = <<>> /\ patient_reference = <<>>
          /\ date_str = <<>>
       \/ /\ kind = "raw" /\ pc = "message" /\ hl7_message \in RawMessages
          /\ args = NoArgs /\ segment = <<>> /\ patient_reference = <<>>
          /\ date_str = <<>>
       \/ /\ kind = "pid" /\ pc = "input" /\ segment \in PidSegments
          /\ args = NoArgs /\ hl7_message = <<>> /\ patient_reference = <<>>
          /\ date_str = <<>>
       \/ /\ kind = "in1" /\ pc = "input" /\ segment \in In1Segments
          /\ patient_reference \in ReferencePool
          /\ args = NoArgs /\ hl7_message = <<>> /\ date_str = <<>>
       \/ /\ kind = "date" /\ pc = "input" /\ date_str \in DateStrings
          /\ args = NoArgs /\ hl7_message = <<>> /\ segment = <<>>
          /\ patient_reference = <<>>

\* A generator call: the message on success, nothing when it raised.
Generated(name, r) ==
    /\ call' = name
    /\ pc' = IF r.ok THEN "message" ELSE "error"
    /\ hl7_message' = r.value
    /\ result' = [result EXCEPT !.ok = r.ok]
    /\ UNCHANGED <<kind, args, segment, patient_reference, date_str>>
    /\ UNCHANGED service_vars

GenerateAdt ==
    /\ pc = "input" /\ kind = "gen"
    /\ \E now \in Clock :
        Generated("generate_hl7_adt_message", generate_hl7_adt_message(args, now))

GenerateSvc ==
    /\ pc = "input" /\ kind = "gen"
    /\ ValidPatientData(args)
    /\ \E now \in Clock :
        Generated("generate_hl7_message", generate_hl7_message(args, now))

\* A converter call: the two resources, or nothing when parsing raised.
Converted(r) ==
    /\ pc' = IF r.ok THEN "done" ELSE "error"
    /\ result' = [ok |-> r.ok, patient |-> r.patient, coverage |-> r.coverage,
                  date |-> None]
    /\ UNCHANGED <<kind, call, args, hl7_message, segment, patient_reference, date_str>>
    /\ UNCHANGED service_vars

Convert ==
    /\ pc = "message"
    /\ Converted(convert_hl7_to_fhir(hl7_message))

MapPid ==
    /\ pc = "input" /\ kind = "pid"
    /\ pc' = "done"
    /\ call' = "pid_to_fhir_patient"
    /\ result' = [result EXCEPT !.patient = Some(pid_to_fhir_patient(segment))]
    /\ UNCHANGED <<kind, args, hl7_message, segment, patient_reference, date_str>>
    /\ UNCHANGED service_vars

MapIn1 ==
    /\ pc = "input" /\ kind = "in1"
    /\ pc' = "done"
    /\ call' = "in1_to_fhir_coverage"
    /\ result' = [result EXCEPT
                    !.coverage = Some(in1_to_fhir_coverage(segment, patient_reference))]
    /\ UNCHANGED <<kind, args, hl7_message, segment, patient_reference, date_str>>
    /\ UNCHANGED service_vars

ParseDate ==
    /\ pc = "input" /\ kind = "date"
    /\ pc' = "done"
    /\ call' = "parse_hl7_date"
    /\ result' = [result EXCEPT !.date = parse_hl7_date(date_str)]
    /\ UNCHANGED <<kind, args, hl7_message, segment, patient_reference, date_str>>
    /\ UNCHANGED service_vars

Next == GenerateAdt \/ GenerateSvc \/ Convert \/ MapPid \/ MapIn1 \/ ParseDate

Spec == Init /\ [][Next]_vars

\* --------------------------------------------------------------- claims

ConvertDone == pc = "done" /\ kind \in {"raw", "gen"}

\* The segments of the message as the converter's loop meets them.
SegmentsOfType(text, type) ==
    SelectSeq(parse_hl7_message(text).segments, LAMBDA seg : Str(seg[1]) = type)

\* A class entry as the claims describe it.
GroupEntry(v) == [code |-> "group", value |-> v, name |-> None]
PlanEntry(v) == [code |-> "plan", value |-> v, name |-> Some(v)]

\* C1: converting the accepted test message of test_server.py yields a
\* Coverage with subscriberId "PPO123", payor [BlueCross BlueShield], class
\* [group GRP456789, plan Gold Plan PPO] in that order and beneficiary
\* reference "Patient/MRN123456".
C1_TestMessageCoverage ==
    (pc = "done" /\ kind = "raw" /\ hl7_message = hl7_msg) =>
        /\ Len(result.coverage) = 1
        /\ result.coverage[1].subscriberId = Some(<<"P", "P", "O", "1", "2", "3">>)
        /\ result.coverage[1].payor = <<[display |-> <<"B", "l", "u", "e", "C", "r", "o", "s", "s", " ", "B", "l", "u", "e", "S", "h", "i", "e", "l", "d">>]>>
        /\ result.coverage[1].class
             = Some(<<GroupEntry(<<"G", "R", "P", "4", "5", "6", "7", "8", "9">>), PlanEntry(<<"G", "o", "l", "d", " ", "P", "l", "a", "n", " ", "P", "P", "O">>)>>)
        /\ result.coverage[1].beneficiary.reference = <<"P", "a", "t", "i", "e", "n", "t", "/", "M", "R", "N", "1", "2", "3", "4", "5", "6">>

\* The dob has the form MM/DD/YYYY: three parts, a month and a day of one or
\* two characters and a year of four.
IsMMDDYYYY(d) ==
    LET parts == Split(d, "/")
    IN  /\ Len(parts) = 3
        /\ Len(parts[1]) \in {1, 2} /\ Len(parts[2]) \in {1, 2} /\ Len(parts[3]) = 4

Pad2(x) == IF Len(x) = 1 THEN <<"0">> \o x ELSE x

MaleForms == {<<"M", "A", "L", "E">>, <<"M">>}

\* C2: patient round trip.  For a supplied non-empty MRN, non-empty names and a
\* dob MM/DD/YYYY, converting what either generator wrote yields a Patient with
\* exactly one identifier whose value is the MRN, exactly one name {family:
\* last name, given: [first name]}, birthDate YYYY-MM-DD with month and day
\* zero-padded, and gender male when the input gender is MALE or M in any
\* case and female otherwise.
C2_PatientRoundTrip ==
    (ConvertDone /\ kind = "gen" /\ Truthy_opt(args.mrn) /\ IsMMDDYYYY(args.dob)
        /\ Len(args.last_name) > 0 /\ Len(args.first_name) > 0) =>
        /\ Len(result.patient) = 1
        /\ Len(result.patient[1].identifier) = 1
        /\ result.patient[1].identifier[1].value = args.mrn[1]
        /\ result.patient[1].name
             = <<[use |-> "official", family |-> args.last_name,
                  given |-> <<args.first_name>>]>>
        /\ LET parts == Split(args.dob, "/")
           IN  result.patient[1].birthDate
                 = Some(parts[3] \o <<"-">> \o Pad2(parts[1]) \o <<"-">> \o Pad2(parts[2]))
        /\ result.patient[1].gender
             = IF Upper(args.gender) \in MaleForms THEN "male" ELSE "female"

\* C2 witness: a one-digit month and day and a lower-case "m" went through the
\* service's generator and the converter.
C2_Witness ==
    /\ ConvertDone /\ kind = "gen" /\ call = "generate_hl7_message"
    /\ Truthy_opt(args.mrn) /\ args.dob = <<"1", "/", "5", "/", "1", "9", "8", "0">> /\ args.gender = <<"m">>
    /\ Len(result.patient) = 1
    /\ result.patient[1].birthDate = Some(<<"1", "9", "8", "0", "-", "0", "1", "-", "0", "5">>)
    /\ result.patient[1].gender = "male"

\* C3: coverage round trip.  With insurance name, member id, plan and group
\* number all supplied and non-empty, converting what the generator wrote
\* yields a Coverage whose subscriberId is the member id, whose payor is the
\* insurance name and whose class is [group entry with the group number, plan
\* entry with the plan].
C3_CoverageRoundTrip ==
    (ConvertDone /\ kind = "gen" /\ Truthy_opt(args.insurance_name)
        /\ Truthy_opt(args.member_id) /\ Truthy_opt(args.plan)
        /\ Truthy_opt(args.group_number)) =>
        /\ Len(result.coverage) = 1
        /\ result.coverage[1].subscriberId = Some(args.member_id[1])
        /\ result.coverage[1].payor = <<[display |-> args.insurance_name[1]]>>
        /\ result.coverage[1].class
             = Some(<<GroupEntry(args.group_number[1]), PlanEntry(args.plan[1])>>)

\* C4: with several PID or several IN1 segments in a message, the Patient is
\* built from the first PID segment and the Coverage from the first IN1
\* segment; later duplicates have no effect.
C4_FirstSegmentsUsed ==
    (ConvertDone /\ Len(SegmentsOfType(hl7_message, PID)) > 0) =>
        LET pids == SegmentsOfType(hl7_message, PID)
            in1s == SegmentsOfType(hl7_message, IN1)
            first_patient == pid_to_fhir_patient(pids[1])
        IN  /\ result.patient = Some(first_patient)
            /\ Len(in1s) > 0 =>
                 result.coverage
                   = Some(in1_to_fhir_coverage(in1s[1],
                            PatientSlash \o placeholder_id(first_patient)))

\* C5: the result has a Patient iff the message has a PID segment, and a
\* Coverage iff it has both a PID and an IN1 segment; so a message without PID
\* yields neither, a message without IN1 yields no Coverage, and a Coverage
\* never comes without a Patient.
C5_ResourcesIffSegments ==
    ConvertDone =>
        LET has_pid == Len(SegmentsOfType(hl7_message, PID)) > 0
            has_in1 == Len(SegmentsOfType(hl7_message, IN1)) > 0
        IN  /\ result.ok
            /\ (Len(result.patient) = 1) <=> has_pid
            /\ (Len(result.coverage) = 1) <=> (has_pid /\ has_in1)
            /\ Len(result.coverage) = 1 => Len(result.patient) = 1

\* C5 witness: a message with an IN1 segment and no PID segment was converted
\* and yielded neither resource.
C5_Witness ==
    /\ ConvertDone
    /\ Len(SegmentsOfType(hl7_message, IN1)) > 0
    /\ Len(SegmentsOfType(hl7_message, PID)) = 0
    /\ result.patient = None /\ result.coverage = None

\* The text of field k of the segment handed to a mapper, with the field
\* absent when the segment is too short.
FieldPresent(k) == Len(segment) > k
FieldText(k) == IF FieldPresent(k) THEN Str(segment[k + 1]) ELSE <<>>

PidDone == pc = "done" /\ kind = "pid"

\* C6: the gender of the Patient built from any PID segment is one of male,
\* female, other, unknown: male for m/M in field 8, female for f/F, other for
\* o/O, and unknown for u/U, for every other value and for an absent field.
C6_GenderTotal ==
    PidDone =>
        LET g == result.patient[1].gender
            f == FieldText(8)
        IN  /\ g \in {"male", "female", "other", "unknown"}
            /\ g = "male" <=> f \in {<<"M">>, <<"m">>}
            /\ g = "female" <=> f \in {<<"F">>, <<"f">>}
            /\ g = "other" <=> f \in {<<"O">>, <<"o">>}

\* C6 witness: a lower-case "o" in field 8 was mapped to other.
C6_Witness ==
    PidDone /\ FieldText(8) = <<"o">> /\ result.patient[1].gender = "other"

\* C7: parse_hl7_date of a string D of 8 or more characters is the
\* 10-character string D[0:4] - D[4:6] - D[6:8]; of a shorter or empty string
\* it is None.
C7_DateSlices ==
    (pc = "done" /\ kind = "date") =>
        IF Len(date_str) >= 8
        THEN /\ Len(result.date) = 1
             /\ Len(result.date[1]) = 10
             /\ SubSeq(result.date[1], 1, 4) = SubSeq(date_str, 1, 4)
             /\ result.date[1][5] = "-"
             /\ SubSeq(result.date[1], 6, 7) = SubSeq(date_str, 5, 6)
             /\ result.date[1][8] = "-"
             /\ SubSeq(result.date[1], 9, 10) = SubSeq(date_str, 7, 8)
        ELSE result.date = None

\* C7 witness: a 9-character string whose month differs from its other digits
\* was normalised.
C7_Witness ==
    /\ pc = "done" /\ kind = "date"
    /\ date_str = <<"1", "1", "1", "1", "9", "9", "1", "1", "9">>
    /\ result.date = Some(<<"1", "1", "1", "1", "-", "9", "9", "-", "1", "1">>)

\* C8: pid_to_fhir_patient is lenient: each of identifier, name, birth date and
\* gender whose source field is missing or empty takes its default (empty
\* identifier list, empty name list, no birthDate, gender unknown), a birth
\* date shorter than 8 characters leaves birthDate out, and each attribute
\* depends on its own field only.
C8_LenientDefaults ==
    PidDone =>
        LET p == result.patient[1]
        IN  /\ Len(FieldText(3)) = 0 => p.identifier = <<>>
            /\ Len(FieldText(5)) = 0 => p.name = <<>>
            /\ Len(FieldText(7)) < 8 => p.birthDate = None
            /\ Len(FieldText(8)) = 0 => p.gender = "unknown"

\* C9: the Patient has exactly one identifier, valued with the first component
\* of PID field 3, when that component is non-empty, and an empty identifier
\* list otherwise; no identifier with an empty value is ever emitted.
C9_IdentifierNonEmpty ==
    PidDone =>
        LET p == result.patient[1]
            first == Split(FieldText(3), "^")[1]
        IN  /\ \A i \in 1..Len(p.identifier) : Len(p.identifier[i].value) > 0
            /\ IF Len(first) > 0
               THEN Len(p.identifier) = 1 /\ p.identifier[1].value = first
               ELSE p.identifier = <<>>

In1Done == pc = "done" /\ kind = "in1"

\* C10: the Coverage has a group entry iff IN1 field 8 is non-empty once
\* trimmed, a plan entry (value and name the trimmed text) iff field 9 is, the
\* group entry first; with both blank or absent it has no class attribute at
\* all rather than an empty list.
C10_ClassEntries ==
    In1Done =>
        LET c == result.coverage[1]
            g == Strip(FieldText(8))
            p == Strip(FieldText(9))
            entries == (IF Len(g) > 0 THEN <<GroupEntry(g)>> ELSE <<>>)
                       \o (IF Len(p) > 0 THEN <<PlanEntry(p)>> ELSE <<>>)
        IN  /\ c.class # Some(<<>>)
            /\ c.class = IF Len(entries) > 0 THEN Some(entries) ELSE None

\* C10 witness: a segment whose fields 8 and 9 hold only whitespace was mapped
\* to a Coverage without class.
C10_Witness ==
    /\ In1Done
    /\ FieldPresent(9) /\ FieldText(8) = <<" ">> /\ FieldText(9) = <<" ", " ">>
    /\ result.coverage[1].class = None

GenDone == pc = "message" /\ kind = "gen"

StartsWith(s, prefix) == Slice(s, 0, Len(prefix)) = prefix

\* C11: a generated message is the MSH segment, the PID segment and at most
\* one IN1 segment, in that order, joined by single CRs without a trailing CR,
\* and the IN1 segment is there iff the insurance name and the member id are
\* both non-empty; for both generators.
C11_SegmentLayout ==
    GenDone =>
        LET segs == Split(hl7_message, CR)
        IN  /\ Len(segs) \in {2, 3}
            /\ StartsWith(segs[1], <<"M", "S", "H", Bar>>)
            /\ StartsWith(segs[2], PID \o <<Bar>>)
            /\ Len(segs) = 3 => StartsWith(segs[3], IN1 \o <<Bar>>)
            /\ Len(segs) = 3
                 <=> (Truthy_opt(args.insurance_name) /\ Truthy_opt(args.member_id))

\* The fields of the IN1 segment of a generated message.
In1Fields(text) == Split(Split(text, CR)[3], Bar)

\* C12: when generate_hl7_adt_message emits an IN1 segment, the segment has
\* the same number of fields whether or not group number and plan are
\* supplied, and a supplied group number (plan) sits at a field index that does
\* not depend on the other value.
C12_In1FieldCount ==
    (GenDone /\ call = "generate_hl7_adt_message"
        /\ Len(Split(hl7_message, CR)) = 3) =>
        \A now \in Clock, g \in GroupNumberPool, p \in PlanPool :
            LET here == In1Fields(hl7_message)
                other == In1Fields(generate_hl7_adt_message(
                             [args EXCEPT !.group_number = g, !.plan = p], now).value)
            IN  /\ Len(other) = Len(here)
                /\ (Truthy_opt(args.group_number) /\ g = args.group_number) =>
                       \E i \in 1..Len(here) :
                           here[i] = g[1] /\ i <= Len(other) /\ other[i] = g[1]
                /\ (Truthy_opt(args.plan) /\ p = args.plan) =>
                       \E i \in 1..Len(here) :
                           here[i] = p[1] /\ i <= Len(other) /\ other[i] = p[1]

\* x with zeros on its left up to two characters.
ZeroPad2(x) == IF Len(x) >= 2 THEN x ELSE [i \in 1..(2 - Len(x)) |-> "0"] \o x

GenReturned == kind = "gen" /\ call # "none" /\ pc \in {"message", "error"}

BareCR(text) ==
    LET cr   == ReplaceLF(ReplaceCRLF(text))
        body == SelectSeq(Positions(cr), LAMBDA i : cr[i] # CR)
    IN  IF Len(body) = 0 THEN <<>> ELSE SubSeq(cr, 1, body[Len(body)])

RawReturned == kind = "raw" /\ pc \in {"done", "error"}

\* C14: a message separated by CRLF, by LF or by bare CR, with or without
\* terminators after its last segment, is tokenized into the same segments as
\* its bare-CR form without trailing terminator, and converts to the same
\* Patient and Coverage.
C14_LineEndings ==
    RawReturned =>
        LET plain == convert_hl7_to_fhir(BareCR(hl7_message))
        IN  /\ parse_hl7_message(hl7_message) = parse_hl7_message(BareCR(hl7_message))
            /\ result.ok = plain.ok
            /\ result.patient = plain.patient
            /\ result.coverage = plain.coverage

\* C14 witness: a CRLF-separated message ending in CRLF was converted to a
\* Patient and a Coverage.
C14_Witness ==
    /\ RawReturned /\ pc = "done"
    /\ Len(result.patient) = 1 /\ Len(result.coverage) = 1
    /\ Len(hl7_message) > 2
    /\ hl7_message[Len(hl7_message)] = LF /\ hl7_message[Len(hl7_message) - 1] = CR
    /\ Len(SelectSeq(Positions(hl7_message), LAMBDA i : hl7_message[i] = LF)) = 3

\* ------------------------------------------- the FHIR server (registry)

IdDigits == <<"1", "2", "3", "4", "5", "6", "7", "8", "9">>

\* The id the FHIR server gives to the next resource it stores.
next_id(reg) == <<"r", IdDigits[Len(reg) + 1]>>

\* POST of a resource that the FHIR server accepts; by is the request that
\* sent it (0: the resource was there before).
stored(reg, resource, by) ==
    Append(reg, [id |-> next_id(reg), resource |-> resource, by |-> by])

\* "for identifier in identifiers: if identifier.get('value') == mrn"
has_identifier(resource, mrn) ==
    \E i \in 1..Len(resource.identifier) : resource.identifier[i].value = mrn

\* The entries of the bundle GET /Patient answers with.
patient_entries(reg) ==
    SelectSeq(reg, LAMBDA e : e.resource.resourceType = "Patient")

\* search_patient_by_mrn(mrn, medplum_token): the first patient of the bundle
\* with an identifier of that value; None when there is none or when the
\* answer is not 200 (ok = FALSE).
search_patient_by_mrn(mrn, reg, ok) ==
    LET hits == SelectSeq(patient_entries(reg), LAMBDA e : has_identifier(e.resource, mrn))
    IN  IF ok /\ Len(hits) > 0 THEN Some(hits[1]) ELSE None

\* check_patient_exists(mrn, token) of the integration service, through the
\* proxy GET /fhir/Patient?identifier=mrn.
check_patient_exists(mrn, reg, ok) ==
    IF Len(mrn) = 0 THEN None ELSE search_patient_by_mrn(mrn, reg, ok)

\* ------------------------------------------------ hl7_endpoint, locals

NoSummary ==
    [patient  |-> [action |-> "none", id |-> None],
     coverage |-> [action |-> "none", id |-> None]]

NoFhir == [ok |-> TRUE, patient |-> None, coverage |-> None]

\* A request as it arrives: at the endpoint with a body ("direct"), or at the
\* integration service with patient data ("service").
NewRequest(via, patient_data, body) ==
    [via |-> via, pc |-> IF via = "service" THEN "submitted" ELSE "received",
     patient_data |-> patient_data, body |-> body,
     fhir |-> NoFhir, mrn |-> None, patient_id |-> None,
     coverage_resource |-> None, summary |-> NoSummary,
     status |-> 0, svc_status |-> 0, svc_result |-> "none", calls |-> <<>>]

\* raise HTTPException(status_code=...) out of receive_hl7_message
raised(q, status_code) == [q EXCEPT !.pc = "responded", !.status = status_code]

\* "mrn = patient_resource['identifier'][0]['value']" when the list is not empty
first_mrn(patient_resource) ==
    IF Len(patient_resource.identifier) > 0
    THEN Some(patient_resource.identifier[1].value) ELSE None

\* Mutant of receive_hl7_message_begin: a result without patient is let
\* through.
receive_hl7_message_begin_unchecked(q) ==
    LET fhir_resources == convert_hl7_to_fhir(q.body)
    IN  IF Len(q.body) = 0 THEN raised(q, 400)
        ELSE IF ~fhir_resources.ok THEN raised([q EXCEPT !.fhir = fhir_resources], 400)
        ELSE IF Len(fhir_resources.patient) = 0
        THEN [q EXCEPT !.fhir = fhir_resources, !.pc = "post_patient"]
        ELSE LET mrn == first_mrn(fhir_resources.patient[1])
             IN  [q EXCEPT !.fhir = fhir_resources, !.mrn = mrn,
                           !.pc = IF Truthy_opt(mrn) THEN "search" ELSE "post_patient"]

\* receive_hl7_message from the body to the first call of the FHIR server
\* (fhir holds what convert_hl7_to_fhir gave, ok = FALSE when it raised):
\* 400 for an empty body, a message that does not parse or a result without
\* patient; then the search when there is an MRN, the creation otherwise.
receive_hl7_message_begin(q) ==
    LET fhir_resources == convert_hl7_to_fhir(q.body)
    IN  IF Len(q.body) = 0 THEN raised(q, 400)
        ELSE IF ~fhir_resources.ok THEN raised([q EXCEPT !.fhir = fhir_resources], 400)
        ELSE IF Len(fhir_resources.patient) = 0
        THEN raised([q EXCEPT !.fhir = fhir_resources], 400)
        ELSE LET mrn == first_mrn(fhir_resources.patient[1])
             IN  [q EXCEPT !.fhir = fhir_resources, !.mrn = mrn,
                           !.pc = IF Truthy_opt(mrn) THEN "search" ELSE "post_patient"]

\* Mutant of with_patient_id: the coverage is sent with the reference the
\* converter gave it.
with_patient_id_not_rewritten(q, action, id) ==
    LET known == [q EXCEPT !.summary.patient = [action |-> action, id |-> Some(id)],
                           !.patient_id = Some(id)]
    IN  IF Len(q.fhir.coverage) > 0
        THEN [known EXCEPT !.pc = "post_coverage",
                           !.coverage_resource = Some(q.fhir.coverage[1])]
        ELSE [known EXCEPT !.pc = "responded", !.status = 200]

\* receive_hl7_message once the patient id is known (found or created): the
\* coverage, if any, gets the reference "Patient/<id>" and is sent; without
\* coverage the summary is returned.
with_patient_id(q, action, id) ==
    LET known == [q EXCEPT !.summary.patient = [action |-> action, id |-> Some(id)],
                           !.patient_id = Some(id)]
    IN  IF Len(q.fhir.coverage) > 0
        THEN [known EXCEPT !.pc = "post_coverage",
                           !.coverage_resource =
                               Some([q.fhir.coverage[1] EXCEPT
                                       !.beneficiary.reference = PatientSlash \o id])]
        ELSE [known EXCEPT !.pc = "responded", !.status = 200]

\* ------------------------------------------------ patient_service, steps

\* create_or_update_patient from the generation of the message on: 400 when
\* generate_hl7_message raised, else the message is sent to /hl7/inbound.
generate_and_send(q, timestamp) ==
    LET generated == generate_hl7_message(q.patient_data, timestamp)
    IN  IF ~generated.ok
        THEN [q EXCEPT !.pc = "replied", !.svc_status = 400]
        ELSE [q EXCEPT !.pc = "received", !.body = generated.value]

\* Mutant of create_or_update_patient_end: "found" is reported as a success.
create_or_update_patient_end_found_ok(q) ==
    IF q.status # 200 THEN [q EXCEPT !.pc = "replied", !.svc_status = 500]
    ELSE [q EXCEPT !.pc = "replied", !.svc_status = 200,
                   !.svc_result = "patient_created"]

\* create_or_update_patient once /hl7/inbound has answered: 500 when the
\* answer is not 200, 409 when the summary says "found", else the success.
create_or_update_patient_end(q) ==
    IF q.status # 200 THEN [q EXCEPT !.pc = "replied", !.svc_status = 500]
    ELSE IF q.summary.patient.action = "found"
    THEN [q EXCEPT !.pc = "replied", !.svc_status = 409]
    ELSE [q EXCEPT !.pc = "replied", !.svc_status = 200,
                   !.svc_result = "patient_created"]

\* ------------------------------------------------- requests and registry

MaxRequests == 2
Requests == 1..MaxRequests

\* Status of an answer of the FHIR server that is not a success.
RegistryFailure == 500

\* Bodies posted to /hl7/inbound.
InboundBodies ==
    <<<<>>,
     <<" ">>,
     RawHeader,
     MessageText(<<RawHeader, <<"P", "I", "D", "|", "1", "|", "|", "M", "1", "^", "^", "^", "M", "R", "N", "|", "|", "S", "m", "^", "J", "o", "|", "|", "1", "9", "8", "0", "1", "2", "1", "5", "|", "M">>, <<"I", "N", "1", "|", "1", "|", "P", "1", "|", "|", "B", "C", "|", "|", "|", "|", "G", "9", "|", "G", "o", "l", "d">>>>, <<CR>>, 0),
     MessageText(<<RawHeader, PID>>, <<CR>>, 0),
     MessageText(<<RawHeader, <<"P", "I", "D", "|", "1", "|", "|", "^", "^", "^", "M", "R", "N">>>>, <<CR>>, 0)>>

\* Patient data posted to the integration service.
ServicePatients ==
    <<[mrn |-> Some(<<"M", "1">>), last_name |-> <<"S", "m">>, first_name |-> <<"J", "o">>,
      dob |-> <<"1", "2", "/", "1", "5", "/", "1", "9", "8", "0">>, gender |-> <<"M", "a", "l", "e">>,
      insurance_name |-> Some(<<"B", "C">>), member_id |-> Some(<<"P", "1">>),
      plan |-> Some(<<"G", "o", "l", "d">>), group_number |-> Some(<<"G", "9">>)],
     [mrn |-> Some(<<"M", "1">>), last_name |-> <<"S", "m">>, first_name |-> <<"J", "o">>,
      dob |-> <<"1", "9", "8", "0", "-", "1", "2", "-", "1", "5">>, gender |-> <<"M", "a", "l", "e">>,
      insurance_name |-> None, member_id |-> None, plan |-> None, group_number |-> None],
     [mrn |-> None, last_name |-> <<"L", "i">>, first_name |-> <<"A">>,
      dob |-> <<"1", "/", "5", "/", "1", "9", "8", "0">>, gender |-> <<"x">>,
      insurance_name |-> None, member_id |-> None, plan |-> None, group_number |-> None]>>

\* The requests that may arrive, in a fixed order.
NewRequests ==
    [i \in 1..Len(InboundBodies) |-> NewRequest("direct", NoArgs, InboundBodies[i])]
    \o [i \in 1..Len(ServicePatients) |-> NewRequest("service", ServicePatients[i], <<>>)]

\* A patient the FHIR server holds from elsewhere, with two identifiers.
OtherPatient ==
    [resourceType |-> "Patient",
     identifier |-> <<[use |-> "usual", code |-> "MR", value |-> <<"X", "9">>],
                      [use |-> "usual", code |-> "MR", value |-> <<"M", "1">>]>>,
     name |-> <<>>, gender |-> "unknown", birthDate |-> None]

RegistryPool == {<<>>, stored(<<>>, OtherPatient, 0)}

\* ------------------------------------------------- behaviour, requests

ServiceInit ==
    /\ pc = "idle" /\ kind = "service" /\ call = "none" /\ args = NoArgs
    /\ hl7_message = <<>> /\ segment = <<>> /\ patient_reference = <<>>
    /\ date_str = <<>> /\ result = NoResult
    /\ registry \in RegistryPool
    \* No handler looks at the number of its request, so of the numberings of
    \* the same requests one is kept.
    /\ \E arrived \in [Requests -> 1..Len(NewRequests)] :
        /\ \A r1, r2 \in Requests : r1 < r2 => arrived[r1] <= arrived[r2]
        /\ request = [r \in Requests |-> NewRequests[arrived[r]]]

\* The request with one more call of the FHIR server on its record.
called(q, what) == [q EXCEPT !.calls = Append(q.calls, what)]

\* create_or_update_patient up to its first call: the check when an MRN was
\* given, else the message is generated and sent.
Submit ==
    \E r \in Requests :
        /\ request[r].pc = "submitted"
        /\ \E now \in Clock :
            request' = [request EXCEPT ![r] =
                IF Truthy_opt(request[r].patient_data.mrn)
                THEN [request[r] EXCEPT !.pc = "check"]
                ELSE generate_and_send(request[r], now)]
        /\ UNCHANGED <<registry, conversion_vars>>

\* check_patient_exists answers: "patient_exists" is returned for a hit, else
\* the message is generated and sent.
CheckReply ==
    \E r \in Requests, ok \in BOOLEAN, now \in Clock :
        /\ request[r].pc = "check"
        /\ LET q == called(request[r], "check")
               existing_patient ==
                   check_patient_exists(q.patient_data.mrn[1], registry, ok)
           IN  request' = [request EXCEPT ![r] =
                   IF Len(existing_patient) > 0
                   THEN [q EXCEPT !.pc = "replied", !.svc_status = 200,
                                  !.svc_result = "patient_exists"]
                   ELSE generate_and_send(q, now)]
        /\ UNCHANGED <<registry, conversion_vars>>

\* receive_hl7_message from the body to its first call of the FHIR server.
Receive ==
    \E r \in Requests :
        /\ request[r].pc = "received"
        /\ request' = [request EXCEPT ![r] = receive_hl7_message_begin(request[r])]
        /\ UNCHANGED <<registry, conversion_vars>>

\* search_patient_by_mrn answers: the patient is "found", or is to be created.
SearchReply ==
    \E r \in Requests, ok \in BOOLEAN :
        /\ request[r].pc = "search"
        /\ LET q == called(request[r], "search")
               existing_patient == search_patient_by_mrn(q.mrn[1], registry, ok)
           IN  request' = [request EXCEPT ![r] =
                   IF Len(existing_patient) > 0
                   THEN with_patient_id(q, "found", existing_patient[1].id)
                   ELSE [q EXCEPT !.pc = "post_patient"]]
        /\ UNCHANGED <<registry, conversion_vars>>

\* create_fhir_resource(patient_resource) answers: the patient is "created",
\* or the failure is raised.
CreatePatient ==
    \E r \in Requests, ok \in BOOLEAN :
        /\ request[r].pc = "post_patient"
        /\ LET q == called(request[r], "create Patient")
           IN  IF ok
               THEN /\ registry' = stored(registry, q.fhir.patient[1], r)
                    /\ request' = [request EXCEPT ![r] =
                           with_patient_id(q, "created", next_id(registry))]
               ELSE /\ registry' = registry
                    /\ request' = [request EXCEPT ![r] = raised(q, RegistryFailure)]
        /\ UNCHANGED conversion_vars

\* create_fhir_resource(coverage_resource) answers: the summary is returned,
\* or the failure is raised.
CreateCoverage ==
    \E r \in Requests, ok \in BOOLEAN :
        /\ request[r].pc = "post_coverage"
        /\ LET q == called(request[r], "create Coverage")
           IN  IF ok
               THEN /\ registry' = stored(registry, q.coverage_resource[1], r)
                    /\ request' = [request EXCEPT ![r] =
                           [q EXCEPT !.summary.coverage =
                                         [action |-> "created",
                                          id |-> Some(next_id(registry))],
                                     !.pc = "responded", !.status = 200]]
               ELSE /\ registry' = registry
                    /\ request' = [request EXCEPT ![r] = raised(q, RegistryFailure)]
        /\ UNCHANGED conversion_vars

\* create_or_update_patient after send_hl7_to_emr.
ServiceReply ==
    \E r \in Requests :
        /\ request[r].pc = "responded" /\ request[r].via = "service"
        /\ request' = [request EXCEPT ![r] = create_or_update_patient_end(request[r])]
        /\ UNCHANGED <<registry, conversion_vars>>

ServiceNext ==
    Submit \/ CheckReply \/ Receive \/ SearchReply \/ CreatePatient
        \/ CreateCoverage \/ ServiceReply

ServiceSpec == ServiceInit /\ [][ServiceNext]_vars

\* ------------------------------------------------------ claims, requests

\* The resources of one type that the FHIR server holds.
Held(type) == SelectSeq(registry, LAMBDA e : e.resource.resourceType = type)

\* The entries the FHIR server stored for request r.
StoredFor(r, type) == SelectSeq(Held(type), LAMBDA e : e.by = r)

Called(r, what) == \E i \in 1..Len(request[r].calls) : request[r].calls[i] = what

\* C15: a Coverage reaches the FHIR server only after its request has
\* resolved the patient id (found or created), it is the last call of the
\* request, and it carries the reference "Patient/<that id>", the id of a
\* Patient the server holds, never the reference the converter gave it; a
\* request whose Patient creation failed sends no Coverage.
C15_CoverageAfterPatient ==
    \A r \in Requests :
        LET q == request[r]
        IN  /\ \A i \in 1..Len(StoredFor(r, "Coverage")) :
                 LET sent == StoredFor(r, "Coverage")[i].resource
                 IN  /\ q.summary.patient.action \in {"found", "created"}
                     /\ Len(q.patient_id) = 1
                     /\ q.summary.patient.id = q.patient_id
                     /\ \E j \in 1..Len(Held("Patient")) :
                            Held("Patient")[j].id = q.patient_id[1]
                     /\ sent.beneficiary.reference = PatientSlash \o q.patient_id[1]
                     /\ sent.beneficiary.reference
                            # q.fhir.coverage[1].beneficiary.reference
                     /\ q.calls[Len(q.calls)] = "create Coverage"
                     /\ Len(q.calls) > 1
                     /\ q.calls[Len(q.calls) - 1] \in {"search", "create Patient"}
            /\ Called(r, "create Coverage") => Len(q.patient_id) = 1
            /\ (Called(r, "create Patient") /\ q.summary.patient.action = "none") =>
                   /\ q.status = RegistryFailure
                   /\ ~Called(r, "create Coverage")
                   /\ Len(StoredFor(r, "Coverage")) = 0

\* C15 witness: a request whose message has a coverage found the patient the
\* server already held and its Coverage was stored with that patient's id.
C15_Witness ==
    \E r \in Requests :
        /\ request[r].summary.patient.action = "found"
        /\ request[r].summary.coverage.action = "created"
        /\ Len(StoredFor(r, "Coverage")) = 1
        /\ StoredFor(r, "Coverage")[1].resource.beneficiary.reference
               = PatientSlash \o Held("Patient")[1].id

\* The endpoint has taken the request up.
Begun(q) ==
    \/ q.pc \in {"search", "post_patient", "post_coverage", "responded"}
    \/ q.pc = "replied" /\ q.status # 0

\* C16: a request whose body is empty, does not parse, or converts to no
\* Patient is answered 400 without any search or creation, and nothing in the
\* FHIR server comes from it.
C16_Rejections ==
    \A r \in Requests :
        LET q == request[r]
        IN  (Begun(q) /\ (Len(q.body) = 0 \/ ~q.fhir.ok \/ Len(q.fhir.patient) = 0)) =>
                /\ q.status = 400
                /\ q.pc \in {"responded", "replied"}
                /\ ~Called(r, "search") /\ ~Called(r, "create Patient")
                /\ ~Called(r, "create Coverage")
                /\ \A i \in 1..Len(registry) : registry[i].by # r

\* C16 witness: a message without PID segment was answered 400 while the
\* FHIR server holds what another request created.
C16_Witness ==
    \E r \in Requests :
        /\ request[r].body = RawHeader /\ request[r].status = 400
        /\ request[r].calls = <<>>
        /\ \E i \in 1..Len(registry) : registry[i].by \notin {0, r}

\* The FHIR server holds a Patient with an identifier of that value.
MatchHeld(mrn) ==
    \E j \in 1..Len(Held("Patient")) : has_identifier(Held("Patient")[j].resource, mrn)

\* A request that reports "found" reports the id of a Patient that the server
\* holds from elsewhere and that has an identifier equal to the request's
\* MRN; the request has created no Patient, its Coverage refers to that id,
\* and the integration service answers 409 to the summary.
FoundIsExisting ==
    \A r \in Requests :
        LET q == request[r]
        IN  q.summary.patient.action = "found" =>
                /\ \E j \in 1..Len(Held("Patient")) :
                       LET e == Held("Patient")[j]
                       IN  /\ q.summary.patient.id = Some(e.id) /\ e.by # r
                           /\ Len(q.mrn) = 1 /\ has_identifier(e.resource, q.mrn[1])
                /\ ~Called(r, "create Patient")
                /\ Len(StoredFor(r, "Patient")) = 0
                /\ \A i \in 1..Len(StoredFor(r, "Coverage")) :
                       StoredFor(r, "Coverage")[i].resource.beneficiary.reference
                           = PatientSlash \o q.summary.patient.id[1]
                /\ (q.via = "service" /\ q.pc = "replied" /\ q.status = 200) =>
                       q.svc_status = 409 /\ q.svc_result # "patient_created"

\* A request turns to creating a Patient only when its message has no
\* identifier or the server holds no Patient with that MRN.
CreatesOnlyUnmatched ==
    \A r \in Requests :
        (request[r].pc # "post_patient" /\ request'[r].pc = "post_patient") =>
            LET patient_resource == request'[r].fhir.patient[1]
            IN  \/ Len(patient_resource.identifier) = 0
                \/ ~MatchHeld(patient_resource.identifier[1].value)

\* C17: deduplication.  When the server already holds a Patient with an
\* identifier equal to the MRN of the message, no Patient is created, "found"
\* is reported with that patient's id and the Coverage is attached to it; a
\* Patient is created only when there is no such match or no identifier; the
\* integration service turns "found" into 409.
C17_Deduplication == [](FoundIsExisting) /\ [][CreatesOnlyUnmatched]_vars

\* C18: under every interleaving of the requests, of the requests whose
\* message carries the same MRN at most one creates a Patient, and the FHIR
\* server never holds two Patients created for the same MRN.
C18_OnePatientPerMrn ==
    /\ \A r1, r2 \in Requests :
           (r1 # r2 /\ Len(request[r1].mrn) = 1 /\ request[r1].mrn = request[r2].mrn) =>
               ~(request[r1].summary.patient.action = "created"
                 /\ request[r2].summary.patient.action = "created")
    /\ \A i, j \in 1..Len(Held("Patient")) :
           LET a == Held("Patient")[i]
               b == Held("Patient")[j]
           IN  (i # j /\ a.by # 0 /\ b.by # 0 /\ Len(a.resource.identifier) > 0
                    /\ Len(b.resource.identifier) > 0) =>
                   a.resource.identifier[1].value # b.resource.identifier[1].value

====
